---- MODULE Spec2Model ----
(***************************************************************************)
(* The multi-signal anomaly scoring engine of the dashcam anomaly          *)
(* detection application: data_processing/anomaly_detector.py,             *)
(* class AdvancedAnomalyDetector, with the configuration it reads from     *)
(* config/config.py and the way backend/app.py and backend/api/endpoints.py*)
(* use it.                                                                 *)
(*                                                                         *)
(* Numbers.  Python floats are modelled in fixed point:                    *)
(*   - component scores (embedding, text, metadata, statistical) in tenths *)
(*     (1.0 = 10); every bonus of the three rule-based extractors is a     *)
(*     multiple of 0.1, the embedding score is rounded to the nearest      *)
(*     tenth;                                                              *)
(*   - combination weights in twentieths (0.35 = 7), contamination in      *)
(*     tenths (0.1 = 1);                                                   *)
(*   - the weighted sum in two-hundredths (1.0 = 200);                     *)
(*   - final scores in ten-thousandths (1.0 = 10000).                      *)
(* Text is a sequence of one-character strings, so that lower(), substring *)
(* tests, lengths and the regular expression act on characters.            *)
(***************************************************************************)
EXTENDS Integers, Sequences, FiniteSets, TLC

\* ------------------------------------------------------------------------
\* Bounds of the model (not program constants)
\* ------------------------------------------------------------------------

\* get_top_anomalies is called with n in 0..MaxTopN
MaxTopN == 2

\* ------------------------------------------------------------------------
\* Units
\* ------------------------------------------------------------------------

\* 1.0 as a component score (tenths)
One == 10

\* 1.0 as a final score (ten-thousandths)
FinalOne == 10000

\* ------------------------------------------------------------------------
\* Python and pandas helpers
\* ------------------------------------------------------------------------

Min(a, b) == IF a < b THEN a ELSE b

Max(a, b) == IF a > b THEN a ELSE b

RECURSIVE SumSeq(_)
SumSeq(s) == IF s = <<>> THEN 0 ELSE Head(s) + SumSeq(Tail(s))

SeqMax(s) == CHOOSE m \in {s[i] : i \in 1..Len(s)} : \A i \in 1..Len(s) : s[i] <= m

SeqMin(s) == CHOOSE m \in {s[i] : i \in 1..Len(s)} : \A i \in 1..Len(s) : s[i] >= m

\* s[:n] for n >= 0
Take(s, n) == SubSeq(s, 1, Min(n, Len(s)))

\* a missing cell of a DataFrame (float NaN) in a text or categorical column
NaN == <<"NaN">>

\* a missing cell in a numeric column (the counts themselves are >= 0)
NumNaN == -1

\* str(x) of a cell: the text itself, "nan" for a missing cell
PyStr(v) == IF v = NaN THEN <<"n", "a", "n">> ELSE v

\* row.get(col, default): a row is a function from the frame's columns
RowGet(row, col, default) == IF col \in DOMAIN row THEN row[col] ELSE default

UpperChars ==
  <<"A", "B", "C", "D", "E", "F", "G", "H", "I", "J", "K", "L", "M",
    "N", "O", "P", "Q", "R", "S", "T", "U", "V", "W", "X", "Y", "Z">>

LowerChars ==
  <<"a", "b", "c", "d", "e", "f", "g", "h", "i", "j", "k", "l", "m",
    "n", "o", "p", "q", "r", "s", "t", "u", "v", "w", "x", "y", "z">>

IsUpper(c) == \E k \in 1..Len(UpperChars) : UpperChars[k] = c

\* str.lower()
lower(s) ==
  [i \in 1..Len(s) |->
     IF IsUpper(s[i])
     THEN LowerChars[CHOOSE k \in 1..Len(UpperChars) : UpperChars[k] = s[i]]
     ELSE s[i]]

\* sub in s, for strings
Contains(s, sub) ==
  \E i \in 0..(Len(s) - Len(sub)) : \A j \in 1..Len(sub) : s[i + j] = sub[j]

\* re.search(r'[!]{2,}|[A-Z]{5,}', s)
ReSearchPattern(s) ==
  \/ \E i \in 1..(Len(s) - 1) : s[i] = "!" /\ s[i + 1] = "!"
  \/ \E i \in 1..(Len(s) - 4) : \A j \in 0..4 : IsUpper(s[i + j])

\* ------------------------------------------------------------------------
\* Configuration (config/config.py, AnomalyDetectionConfig)
\* ------------------------------------------------------------------------

\* keyword -> weight (tenths), in the dictionary's order
anomaly_keywords ==
  <<
    [name |-> "accident", chars |-> <<"a","c","c","i","d","e","n","t">>, weight |-> 10],
    [name |-> "collision", chars |-> <<"c","o","l","l","i","s","i","o","n">>, weight |-> 10],
    [name |-> "crash", chars |-> <<"c","r","a","s","h">>, weight |-> 10],
    [name |-> "emergency", chars |-> <<"e","m","e","r","g","e","n","c","y">>, weight |-> 9],
    [name |-> "severe", chars |-> <<"s","e","v","e","r","e">>, weight |-> 8],
    [name |-> "critical", chars |-> <<"c","r","i","t","i","c","a","l">>, weight |-> 8],
    [name |-> "dangerous", chars |-> <<"d","a","n","g","e","r","o","u","s">>, weight |-> 8],
    [name |-> "fatal", chars |-> <<"f","a","t","a","l">>, weight |-> 10],
    [name |-> "violation", chars |-> <<"v","i","o","l","a","t","i","o","n">>, weight |-> 6],
    [name |-> "illegal", chars |-> <<"i","l","l","e","g","a","l">>, weight |-> 7],
    [name |-> "wrong", chars |-> <<"w","r","o","n","g">>, weight |-> 5],
    [name |-> "speeding", chars |-> <<"s","p","e","e","d","i","n","g">>, weight |-> 6],
    [name |-> "reckless", chars |-> <<"r","e","c","k","l","e","s","s">>, weight |-> 7],
    [name |-> "aggressive", chars |-> <<"a","g","g","r","e","s","s","i","v","e">>, weight |-> 6],
    [name |-> "unusual", chars |-> <<"u","n","u","s","u","a","l">>, weight |-> 4],
    [name |-> "strange", chars |-> <<"s","t","r","a","n","g","e">>, weight |-> 4],
    [name |-> "unexpected", chars |-> <<"u","n","e","x","p","e","c","t","e","d">>, weight |-> 4],
    [name |-> "odd", chars |-> <<"o","d","d">>, weight |-> 3],
    [name |-> "bizarre", chars |-> <<"b","i","z","a","r","r","e">>, weight |-> 5],
    [name |-> "erratic", chars |-> <<"e","r","r","a","t","i","c">>, weight |-> 6],
    [name |-> "visibility", chars |-> <<"v","i","s","i","b","i","l","i","t","y">>, weight |-> 3],
    [name |-> "fog", chars |-> <<"f","o","g">>, weight |-> 3],
    [name |-> "rain", chars |-> <<"r","a","i","n">>, weight |-> 2],
    [name |-> "snow", chars |-> <<"s","n","o","w">>, weight |-> 3],
    [name |-> "storm", chars |-> <<"s","t","o","r","m">>, weight |-> 5],
    [name |-> "flooding", chars |-> <<"f","l","o","o","d","i","n","g">>, weight |-> 7],
    [name |-> "obstruction", chars |-> <<"o","b","s","t","r","u","c","t","i","o","n">>, weight |-> 5],
    [name |-> "debris", chars |-> <<"d","e","b","r","i","s">>, weight |-> 4],
    [name |-> "obstacle", chars |-> <<"o","b","s","t","a","c","l","e">>, weight |-> 4],
    [name |-> "construction", chars |-> <<"c","o","n","s","t","r","u","c","t","i","o","n">>, weight |-> 2],
    [name |-> "roadwork", chars |-> <<"r","o","a","d","w","o","r","k">>, weight |-> 2]
  >>

\* phrases that reduce the text score
normal_indicators ==
  <<
    <<"n","o"," ","a","n","o","m","a","l","i","e","s"," ","o","b","s","e","r","v","e","d">>,
    <<"n","o","r","m","a","l"," ","d","r","i","v","i","n","g">>,
    <<"r","o","u","t","i","n","e">>,
    <<"t","y","p","i","c","a","l">>,
    <<"s","t","a","n","d","a","r","d">>,
    <<"u","s","u","a","l">>,
    <<"r","e","g","u","l","a","r">>,
    <<"c","o","m","m","o","n">>,
    <<"e","x","p","e","c","t","e","d">>
  >>

\* embedding_weight, text_weight, metadata_weight, statistical_weight (twentieths)
ConfigWeights == [embedding |-> 8, text |-> 7, metadata |-> 3, statistical |-> 2]

\* config.openai.dimension, the dimension of the embedding vectors
ConfigDimension == 3072

\* string literals of the detector
S_accident == <<"a", "c", "c", "i", "d", "e", "n", "t">>

S_abrupt == <<"a", "b", "r", "u", "p", "t">>

S_rain == <<"r", "a", "i", "n">>

S_snow == <<"s", "n", "o", "w">>

S_storm == <<"s", "t", "o", "r", "m">>

S_fog == <<"f", "o", "g">>

S_dark == <<"d", "a", "r", "k">>

S_bright_glare == <<"b", "r", "i", "g", "h", "t", "-", "g", "l", "a", "r", "e">>

S_corrupted == <<"c", "o", "r", "r", "u", "p", "t", "e", "d">>

S_low == <<"l", "o", "w">>

S_parking_lot == <<"p", "a", "r", "k", "i", "n", "g", "-", "l", "o", "t">>

S_highway == <<"h", "i", "g", "h", "w", "a", "y">>

S_intersection == <<"i", "n", "t", "e", "r", "s", "e", "c", "t", "i", "o", "n">>

S_parking == <<"p", "a", "r", "k", "i", "n", "g">>

S_rural == <<"r", "u", "r", "a", "l">>

S_traffic_lights == <<"t", "r", "a", "f", "f", "i", "c", "-", "l", "i", "g", "h", "t", "s">>

S_unknown == <<"u", "n", "k", "n", "o", "w", "n">>

\* ------------------------------------------------------------------------
\* What the detector computes from the text of one row
\* ------------------------------------------------------------------------

\* the body of the loop of _detect_text_anomalies, for one row
\* the penalty taken once for every normal phrase that occurs
TextRowScorePenaltyPerPhrase(row) ==
  LET interpretation == lower(PyStr(RowGet(row, "interpretation", <<>>)))
      description == lower(PyStr(RowGet(row, "description-step-by-step", <<>>)))
      normal_penalty ==
        SumSeq([k \in 1..Len(normal_indicators) |->
                  IF Contains(interpretation, normal_indicators[k]) THEN 3 ELSE 0])
      anomaly_boost ==
        SumSeq([k \in 1..Len(anomaly_keywords) |->
                  IF \/ Contains(interpretation, anomaly_keywords[k].chars)
                     \/ Contains(description, anomaly_keywords[k].chars)
                  THEN anomaly_keywords[k].weight ELSE 0])
      length_score ==
        IF Len(interpretation) < 20 THEN 2
        ELSE IF Len(interpretation) > 200 THEN 3
        ELSE 0
      pattern_score == IF ReSearchPattern(interpretation) THEN 2 ELSE 0
  IN  Min(One, Max(0, anomaly_boost + length_score + pattern_score - normal_penalty))

TextRowScore(row) ==
  LET interpretation == lower(PyStr(RowGet(row, "interpretation", <<>>)))
      description == lower(PyStr(RowGet(row, "description-step-by-step", <<>>)))
      normal_penalty ==
        IF \E k \in 1..Len(normal_indicators) :
             Contains(interpretation, normal_indicators[k])
        THEN 3 ELSE 0
      anomaly_boost ==
        SumSeq([k \in 1..Len(anomaly_keywords) |->
                  IF \/ Contains(interpretation, anomaly_keywords[k].chars)
                     \/ Contains(description, anomaly_keywords[k].chars)
                  THEN anomaly_keywords[k].weight ELSE 0])
      length_score ==
        IF Len(interpretation) < 20 THEN 2
        ELSE IF Len(interpretation) > 200 THEN 3
        ELSE 0
      pattern_score == IF ReSearchPattern(interpretation) THEN 2 ELSE 0
      final_score == Max(0, anomaly_boost + length_score + pattern_score - normal_penalty)
  IN  Min(One, final_score)

unusual_combinations ==
  <<  <<S_parking_lot, S_highway>>,
      <<S_intersection, S_parking>>,
      <<S_rural, S_traffic_lights>>  >>

\* the bonuses of _detect_metadata_anomalies that depend on the row alone
\* (lines 200-228): dangerous values and unusual location-event combinations
HeuristicRowScore(row) ==
  LET event == lower(PyStr(RowGet(row, "main-event", <<>>)))
      location == lower(PyStr(RowGet(row, "location", <<>>)))
      weather == lower(PyStr(RowGet(row, "weather-conditions", <<>>)))
      light == lower(PyStr(RowGet(row, "light-conditions", <<>>)))
      quality == lower(PyStr(RowGet(row, "video-quality", <<>>)))
      dangerous ==
          (IF Contains(event, S_accident) THEN 6 ELSE 0)
        + (IF Contains(event, S_abrupt) THEN 4 ELSE 0)
        + (IF weather \in {S_rain, S_snow, S_storm, S_fog} THEN 2 ELSE 0)
        + (IF light \in {S_dark, S_bright_glare} THEN 1 ELSE 0)
        + (IF Contains(quality, S_corrupted) \/ Contains(quality, S_low) THEN 2 ELSE 0)
      unusual ==
        SumSeq([k \in 1..Len(unusual_combinations) |->
                  IF /\ Contains(location, unusual_combinations[k][1])
                     /\ Contains(event, unusual_combinations[k][2])
                  THEN 3 ELSE 0])
  IN  dangerous + unusual

\* one entry of the reasons list: its wording (kind), and the score, the
\* keywords or the weather value it quotes
Reason(kind, score, detail) == [kind |-> kind, score |-> score, detail |-> detail]

\* found_keywords of _generate_anomaly_explanations (lines 327-328)
FoundKeywords(row) ==
  LET interpretation == lower(PyStr(RowGet(row, "interpretation", <<>>)))
      found == SelectSeq(anomaly_keywords, LAMBDA kw : Contains(interpretation, kw.chars))
  IN  [i \in 1..Len(found) |-> found[i].name]

\* the reasons that name the event type and the weather (lines 337-347)
EventAndWeatherReasons(row) ==
  LET event == PyStr(RowGet(row, "main-event", S_unknown))
      weather == PyStr(RowGet(row, "weather-conditions", S_unknown))
  IN    (IF Contains(lower(event), S_accident)
         THEN <<Reason("accident", 0, <<>>)>>
         ELSE IF Contains(lower(event), S_abrupt)
         THEN <<Reason("abrupt", 0, <<>>)>>
         ELSE <<>>)
     \o (IF lower(weather) \in {S_rain, S_snow, S_storm}
         THEN <<Reason("weather", 0, weather)>>
         ELSE <<>>)

\* ------------------------------------------------------------------------
\* Inputs: record batches
\* ------------------------------------------------------------------------

\* the largest batch and the largest embedding matrix given to detect_anomalies
MaxRows == 3

\* "vehicle crash at intersection ahead"
T_crash ==
  <<"v", "e", "h", "i", "c", "l", "e", " ", "c", "r", "a", "s", "h", " ",
    "a", "t", " ", "i", "n", "t", "e", "r", "s", "e", "c", "t", "i", "o",
    "n", " ", "a", "h", "e", "a", "d">>

\* "no anomalies observed, normal driving"
T_normal ==
  <<"n", "o", " ", "a", "n", "o", "m", "a", "l", "i", "e", "s", " ", "o",
    "b", "s", "e", "r", "v", "e", "d", ",", " ", "n", "o", "r", "m", "a",
    "l", " ", "d", "r", "i", "v", "i", "n", "g">>

\* "DANGER!! STOP"
T_caps ==
  <<"D", "A", "N", "G", "E", "R", "!", "!", " ", "S", "T", "O", "P">>

\* "vehicle drives along a quiet road"
T_plain ==
  <<"v", "e", "h", "i", "c", "l", "e", " ", "d", "r", "i", "v", "e", "s",
    " ", "a", "l", "o", "n", "g", " ", "a", " ", "q", "u", "i", "e", "t",
    " ", "r", "o", "a", "d">>

\* "light rain on the road"
T_rain ==
  <<"l", "i", "g", "h", "t", " ", "r", "a", "i", "n", " ", "o", "n", " ",
    "t", "h", "e", " ", "r", "o", "a", "d">>

\* "accident-collision"
E_accident ==
  <<"a", "c", "c", "i", "d", "e", "n", "t", "-", "c", "o", "l", "l", "i",
    "s", "i", "o", "n">>

\* "normal-driving"
E_normal ==
  <<"n", "o", "r", "m", "a", "l", "-", "d", "r", "i", "v", "i", "n", "g">>

\* "abrupt-braking"
E_abrupt ==
  <<"a", "b", "r", "u", "p", "t", "-", "b", "r", "a", "k", "i", "n", "g">>

\* "highway"
L_highway ==
  <<"h", "i", "g", "h", "w", "a", "y">>

\* "intersection"
L_intersection ==
  <<"i", "n", "t", "e", "r", "s", "e", "c", "t", "i", "o", "n">>

\* "urban"
Z_urban ==
  <<"u", "r", "b", "a", "n">>

\* "clear"
W_clear ==
  <<"c", "l", "e", "a", "r">>

\* "daylight"
G_daylight ==
  <<"d", "a", "y", "l", "i", "g", "h", "t">>

\* "good"
Q_good ==
  <<"g", "o", "o", "d">>

\* a row of the video data with every column
MakeRow(video_id, interpretation, description, event, location, light, weather, quality, tokens) ==
     ("video_id" :> video_id)
  @@ ("interpretation" :> interpretation)
  @@ ("description-step-by-step" :> description)
  @@ ("main-event" :> event)
  @@ ("location" :> location)
  @@ ("zone" :> Z_urban)
  @@ ("light-conditions" :> light)
  @@ ("weather-conditions" :> weather)
  @@ ("video-quality" :> quality)
  @@ ("Input tokens count" :> tokens[1])
  @@ ("Output tokens count" :> tokens[2])
  @@ ("Total tokens count" :> tokens[3])

AllColumns ==
  {"video_id", "interpretation", "description-step-by-step", "main-event", "location",
   "zone", "light-conditions", "weather-conditions", "video-quality",
   "Input tokens count", "Output tokens count", "Total tokens count"}

\* a DataFrame: its columns and its rows, each a function from the columns
Frame(columns, rows) ==
  [columns |-> columns,
   rows |-> [i \in 1..Len(rows) |-> [c \in columns |-> rows[i][c]]]]

RowCrash ==
  MakeRow("a", T_crash, <<>>, E_accident, L_highway, S_dark, S_rain, Q_good, <<10, 20, 30>>)

RowNormal ==
  MakeRow("b", T_normal, <<>>, E_normal, L_highway, G_daylight, W_clear, Q_good, <<12, 20, 32>>)

RowCaps ==
  MakeRow("c", T_caps, T_rain, E_abrupt, L_intersection, G_daylight, S_fog, S_low,
          <<NumNaN, 25, 25>>)

\* a second row with the identifier of RowCrash, and missing cells
RowAgain ==
  MakeRow("a", T_plain, NaN, NaN, L_highway, NaN, NaN, Q_good, <<11, NumNaN, 11>>)

RowPlain ==
  MakeRow("d", T_plain, <<>>, E_normal, L_intersection, S_dark, S_snow, Q_good, <<10, 21, 31>>)

\* a record whose event is "abrupt-stop-accident"
RowBoth ==
  MakeRow("e", T_plain, <<>>,
          <<"a", "b", "r", "u", "p", "t", "-", "s", "t", "o", "p", "-",
            "a", "c", "c", "i", "d", "e", "n", "t">>,
          L_highway, G_daylight, W_clear, Q_good, <<10, 20, 30>>)

FramePool ==
  << Frame(AllColumns, <<>>),
     Frame(AllColumns \ {"video_id", "Input tokens count", "Output tokens count",
                        "Total tokens count"},
           <<RowCaps>>),
     Frame(AllColumns, <<RowCrash, RowAgain>>),
     Frame(AllColumns, <<RowNormal, RowPlain>>),
     Frame(AllColumns, <<RowCrash, RowNormal, RowCaps>>),
     Frame(AllColumns, <<RowCrash, RowNormal, RowCaps, RowPlain>>),
     Frame(AllColumns, <<RowCrash, RowNormal, RowCaps, RowPlain, RowBoth>>) >>

\* the batches given to detect_anomalies
Frames == SelectSeq(FramePool, LAMBDA f : Len(f.rows) <= MaxRows)


\* ------------------------------------------------------------------------
\* The text computations, tabulated over the rows of the batches above
\* (each is computed once per row)
\* ------------------------------------------------------------------------

PoolRows == UNION {{FramePool[k].rows[i] : i \in 1..Len(FramePool[k].rows)} :
                     k \in 1..Len(FramePool)}

TextRowScoreOf == [row \in PoolRows |-> TextRowScore(row)]

HeuristicRowScoreOf == [row \in PoolRows |-> HeuristicRowScore(row)]

FoundKeywordsOf == [row \in PoolRows |-> FoundKeywords(row)]

EventAndWeatherReasonsOf == [row \in PoolRows |-> EventAndWeatherReasons(row)]

\* ------------------------------------------------------------------------
\* Method 2: text analysis of interpretations
\* ------------------------------------------------------------------------

_detect_text_anomalies(video_data) ==
  [i \in 1..Len(video_data.rows) |-> TextRowScoreOf[video_data.rows[i]]]

\* ------------------------------------------------------------------------
\* Method 3: metadata patterns
\* ------------------------------------------------------------------------

metadata_fields ==
  <<"main-event", "location", "zone", "light-conditions",
    "weather-conditions", "video-quality">>

\* video_data[field].value_counts(normalize=True).get(value, 0) is
\* ValueCount / NonNullCount: value_counts drops the missing cells
ValueCount(video_data, field, value) ==
  Cardinality({i \in 1..Len(video_data.rows) : video_data.rows[i][field] = value})

NonNullCount(video_data, field) ==
  Cardinality({i \in 1..Len(video_data.rows) : video_data.rows[i][field] # NaN})

\* the rarity bonus of one field whose value occurs count times among total
RarityBonus(count, total) ==
  IF 100 * count < 5 * total THEN 3          \* frequency < 0.05
  ELSE IF 100 * count < total THEN 5         \* elif frequency < 0.01
  ELSE 0

\* the rarity bonuses of one row (lines 188-198)
RarityRowScore(video_data, row) ==
  SumSeq([k \in 1..Len(metadata_fields) |->
            LET field == metadata_fields[k] IN
            IF field \in DOMAIN row /\ field \in video_data.columns
            THEN IF row[field] # NaN
                 THEN RarityBonus(ValueCount(video_data, field, row[field]),
                                  NonNullCount(video_data, field))
                 ELSE 0
            ELSE 0])

\* the body of the second loop of _detect_metadata_anomalies, for one row
MetadataRowScore(video_data, row) ==
  Min(One, RarityRowScore(video_data, row) + HeuristicRowScoreOf[row])

_detect_metadata_anomalies(video_data) ==
  [i \in 1..Len(video_data.rows) |-> MetadataRowScore(video_data, video_data.rows[i])]

\* ------------------------------------------------------------------------
\* Method 4: statistical anomalies in numerical features
\* ------------------------------------------------------------------------

numerical_fields == <<"Input tokens count", "Output tokens count", "Total tokens count">>

IsAvailable(video_data, field) == field \in video_data.columns

\* pd.to_numeric(video_data[field], errors='coerce').dropna()
FieldData(video_data, field) ==
  LET col == [i \in 1..Len(video_data.rows) |-> video_data.rows[i][field]]
  IN  SelectSeq(col, LAMBDA v : v # NumNaN)

\* the bonus of one value against its field's distribution.  With n values of
\* sum S and sum of squares Q, mean = S/n and std^2 = (nQ - S^2) / (n(n-1))
\* (pandas' std, ddof = 1), so z > k is (nv - S)^2 (n-1) > k^2 n (nQ - S^2)
ZScoreBonus(value, field_data) ==
  LET n == Len(field_data)
      S == SumSeq(field_data)
      Q == SumSeq([i \in 1..n |-> field_data[i] * field_data[i]])
      spread == n * Q - S * S
      dev == (n * value - S) * (n * value - S) * (n - 1)
  IN  IF n > 1 /\ spread > 0
      THEN IF dev > 9 * n * spread THEN 3
           ELSE IF dev > 4 * n * spread THEN 2
           ELSE 0
      ELSE 0

\* the body of the loop of _detect_statistical_anomalies, for one row
StatisticalRowScore(video_data, row) ==
  Min(One,
      SumSeq([k \in 1..Len(numerical_fields) |->
                LET field == numerical_fields[k] IN
                IF IsAvailable(video_data, field) /\ field \in DOMAIN row
                THEN IF row[field] # NumNaN
                     THEN ZScoreBonus(row[field], FieldData(video_data, field))
                     ELSE 0
                ELSE 0]))

\* one zero per numerical field, not per record, when the batch has no
\* numerical column
StatisticalScoresPerField(video_data) ==
  IF \A k \in 1..Len(numerical_fields) : ~IsAvailable(video_data, numerical_fields[k])
  THEN [k \in 1..Len(numerical_fields) |-> 0]
  ELSE [i \in 1..Len(video_data.rows) |-> StatisticalRowScore(video_data, video_data.rows[i])]

_detect_statistical_anomalies(video_data) ==
  IF \A k \in 1..Len(numerical_fields) : ~IsAvailable(video_data, numerical_fields[k])
  THEN [i \in 1..Len(video_data.rows) |-> 0]
  ELSE [i \in 1..Len(video_data.rows) |-> StatisticalRowScore(video_data, video_data.rows[i])]

\* ------------------------------------------------------------------------
\* Method 1: Isolation Forest on the embeddings
\* ------------------------------------------------------------------------

\* An embedding matrix is [rows, dim, decision]: its number of rows, the
\* dimension of its vectors, and the values that the Isolation Forest's
\* decision_function gives its rows once fitted on it with the detector's
\* random_state (integers; lower = more anomalous).

RECURSIVE SortAsc(_)
SortAsc(s) ==
  IF s = <<>> THEN <<>>
  ELSE LET m == SeqMin(s)
           k == CHOOSE i \in 1..Len(s) : s[i] = m /\ \A j \in 1..(i - 1) : s[j] # m
       IN  <<m>> \o SortAsc(SubSeq(s, 1, k - 1) \o SubSeq(s, k + 1, Len(s)))

\* (max - scores) / (max - min + 1e-8), to the nearest tenth
NormalizedScores(decision) ==
  LET hi == SeqMax(decision)
      lo == SeqMin(decision)
  IN  [i \in 1..Len(decision) |->
         IF hi = lo THEN 0
         ELSE (2 * One * (hi - decision[i]) + (hi - lo)) \div (2 * (hi - lo))]

\* 10 * np.percentile(a, (1 - contamination) * 100), linear interpolation
PercentileTimes10(a, contamination) ==
  LET sorted == SortAsc(a)
      pos == (Len(a) - 1) * (10 - contamination)
      below == pos \div 10
      above == Min(below + 1, Len(a) - 1)
  IN  10 * sorted[below + 1] + (pos % 10) * (sorted[above + 1] - sorted[below + 1])

\* whether the try block of _detect_embedding_anomalies raises: the input makes
\* scikit-learn raise (fault), there is no row to fit on, the forest was built
\* with a contamination outside (0, 0.5], or the percentile is outside [0, 100]
EmbeddingRaises(embeddings, contamination, forest_contamination, fault) ==
  \/ fault
  \/ embeddings.rows = 0
  \/ forest_contamination < 1 \/ forest_contamination > 5
  \/ contamination < 0 \/ contamination > 10

\* the scores of the try block whatever happens in it
EmbeddingScoresNoFallback(embeddings, contamination, forest_contamination, fault) ==
  LET normalized_scores == NormalizedScores(embeddings.decision)
      threshold == PercentileTimes10(normalized_scores, contamination)
  IN  [i \in 1..embeddings.rows |->
         IF 10 * normalized_scores[i] > threshold THEN normalized_scores[i] ELSE 0]

_detect_embedding_anomalies(embeddings, contamination, forest_contamination, fault) ==
  IF EmbeddingRaises(embeddings, contamination, forest_contamination, fault)
  THEN [i \in 1..embeddings.rows |-> 0]                  \* np.zeros(len(embeddings))
  ELSE LET normalized_scores == NormalizedScores(embeddings.decision)
           threshold == PercentileTimes10(normalized_scores, contamination)
       IN  [i \in 1..embeddings.rows |->
              IF 10 * normalized_scores[i] > threshold THEN normalized_scores[i] ELSE 0]

\* ------------------------------------------------------------------------
\* Score combination
\* ------------------------------------------------------------------------

\* round(10000 * (k / 200) ^ 1.2) for k = 0..200
Pow12Table ==
  <<
    0, 17, 40, 65, 91, 120, 149, 179, 210, 242, 275, 308,
    342, 376, 411, 447, 483, 519, 556, 593, 631, 669, 707, 746,
    785, 825, 864, 904, 945, 985, 1026, 1068, 1109, 1151, 1193, 1235,
    1277, 1320, 1363, 1406, 1450, 1493, 1537, 1581, 1625, 1670, 1714, 1759,
    1804, 1849, 1895, 1940, 1986, 2032, 2078, 2124, 2171, 2217, 2264, 2311,
    2358, 2405, 2453, 2500, 2548, 2596, 2644, 2692, 2740, 2789, 2837, 2886,
    2935, 2984, 3033, 3082, 3131, 3181, 3231, 3280, 3330, 3380, 3430, 3481,
    3531, 3582, 3632, 3683, 3734, 3785, 3836, 3887, 3938, 3990, 4041, 4093,
    4145, 4197, 4248, 4301, 4353, 4405, 4457, 4510, 4563, 4615, 4668, 4721,
    4774, 4827, 4880, 4933, 4987, 5040, 5094, 5148, 5201, 5255, 5309, 5363,
    5417, 5472, 5526, 5580, 5635, 5689, 5744, 5799, 5854, 5908, 5963, 6019,
    6074, 6129, 6184, 6240, 6295, 6351, 6406, 6462, 6518, 6574, 6630, 6686,
    6742, 6798, 6855, 6911, 6968, 7024, 7081, 7137, 7194, 7251, 7308, 7365,
    7422, 7479, 7536, 7593, 7651, 7708, 7766, 7823, 7881, 7939, 7996, 8054,
    8112, 8170, 8228, 8286, 8344, 8403, 8461, 8519, 8578, 8636, 8695, 8754,
    8812, 8871, 8930, 8989, 9048, 9107, 9166, 9225, 9284, 9344, 9403, 9462,
    9522, 9581, 9641, 9701, 9760, 9820, 9880, 9940, 10000
  >>

\* a transform that grows twice as fast
Power12Doubled(x) == 2 * Pow12Table[x + 1]

\* a transform that falls as its argument grows
Power12Inverted(x) == Pow12Table[200 - x + 1]

\* np.power(x, 1.2) of a weighted sum in two-hundredths, in ten-thousandths
Power12(x) == Pow12Table[x + 1]

\* lines 290-298 for one record: the weighted sum, then the power transform
CombinedScore(weights, embedding_score, text_score, metadata_score, statistical_score) ==
  Power12(  weights.embedding * embedding_score
          + weights.text * text_score
          + weights.metadata * metadata_score
          + weights.statistical * statistical_score)

\* whether _combine_anomaly_scores raises: max() of an empty array
CombineRaises(embedding_scores) == Len(embedding_scores) = 0

\* normalising by the maximum alone
CombineDividingByMax(weights, embedding_scores, text_scores, metadata_scores, statistical_scores) ==
  LET N == Len(embedding_scores)
      combined_scores ==
        [i \in 1..N |->
           CombinedScore(weights, embedding_scores[i], text_scores[i],
                         metadata_scores[i], statistical_scores[i])]
      hi == SeqMax(combined_scores)
      lo == SeqMin(combined_scores)
  IN  IF hi > lo
      THEN [i \in 1..N |-> (combined_scores[i] * FinalOne) \div hi]
      ELSE combined_scores

_combine_anomaly_scores(weights, embedding_scores, text_scores, metadata_scores, statistical_scores) ==
  LET N == Len(embedding_scores)
      combined_scores ==
        [i \in 1..N |->
           CombinedScore(weights, embedding_scores[i], text_scores[i],
                         metadata_scores[i], statistical_scores[i])]
      hi == SeqMax(combined_scores)
      lo == SeqMin(combined_scores)
  IN  IF hi > lo
      THEN [i \in 1..N |-> ((combined_scores[i] - lo) * FinalOne) \div (hi - lo)]
      ELSE combined_scores

\* ------------------------------------------------------------------------
\* Explanations and the anomaly_explanations dictionary
\* ------------------------------------------------------------------------

\* A Python dict is the sequence of its items [id, data] in insertion order.

HasKey(d, key) == \E i \in 1..Len(d) : d[i].id = key

KeySet(d) == {d[i].id : i \in 1..Len(d)}

\* d[key], for a key of d
DictItem(d, key) == d[CHOOSE i \in 1..Len(d) : d[i].id = key].data

\* d[key] = data: a new key is appended, a known key keeps its place
DictSet(d, key, data) ==
  IF HasKey(d, key)
  THEN [i \in 1..Len(d) |-> IF d[i].id = key THEN [id |-> key, data |-> data] ELSE d[i]]
  ELSE Append(d, [id |-> key, data |-> data])

\* Python's None
None == [none |-> TRUE]

\* str(idx) of a row index
IndexStr(idx) == <<"0", "1", "2", "3", "4", "5", "6", "7", "8", "9">>[idx + 1]

\* the reasons of one row (lines 319-354)
\* the statistical reason appended before the others
ReasonsStatisticalFirst(row, embedding_score, text_score, metadata_score, statistical_score) ==
  (IF statistical_score > 2
   THEN <<Reason("statistical", statistical_score, <<>>)>> ELSE <<>>)
  \o (IF embedding_score > 3
      THEN <<Reason("embedding", embedding_score, <<>>)>> ELSE <<>>)
  \o (IF text_score > 3
      THEN IF FoundKeywordsOf[row] # <<>>
           THEN <<Reason("keywords", 0, Take(FoundKeywordsOf[row], 3))>>
           ELSE <<Reason("text", text_score, <<>>)>>
      ELSE <<>>)
  \o (IF metadata_score > 3
      THEN EventAndWeatherReasonsOf[row]
           \o (IF metadata_score > 5
               THEN <<Reason("metadata", metadata_score, <<>>)>> ELSE <<>>)
      ELSE <<>>)

Reasons(row, embedding_score, text_score, metadata_score, statistical_score) ==
  LET embedding_reasons ==
        IF embedding_score > 3
        THEN <<Reason("embedding", embedding_score, <<>>)>>
        ELSE <<>>
      text_reasons ==
        IF text_score > 3
        THEN LET found_keywords == FoundKeywordsOf[row] IN
             IF found_keywords # <<>>
             THEN <<Reason("keywords", 0, Take(found_keywords, 3))>>
             ELSE <<Reason("text", text_score, <<>>)>>
        ELSE <<>>
      metadata_reasons ==
        IF metadata_score > 3
        THEN EventAndWeatherReasonsOf[row]
             \o (IF metadata_score > 5
                 THEN <<Reason("metadata", metadata_score, <<>>)>>
                 ELSE <<>>)
        ELSE <<>>
      statistical_reasons ==
        IF statistical_score > 2
        THEN <<Reason("statistical", statistical_score, <<>>)>>
        ELSE <<>>
  IN  embedding_reasons \o text_reasons \o metadata_reasons \o statistical_reasons

\* the thresholds taken as inclusive
SeverityInclusive(final_score) ==
  IF final_score >= 7000 THEN "High"
  ELSE IF final_score >= 4000 THEN "Medium"
  ELSE "Low"

Severity(final_score) ==
  IF final_score > 7000 THEN "High"
  ELSE IF final_score > 4000 THEN "Medium"
  ELSE "Low"

\* the dictionary stored for one row (lines 356-376); confidence in thirds
Explanation(row, embedding_score, text_score, metadata_score, statistical_score, final_score) ==
  LET reasons == Reasons(row, embedding_score, text_score, metadata_score, statistical_score)
  IN  [final_score |-> final_score,
       severity |-> Severity(final_score),
       component_scores |-> [embedding |-> embedding_score,
                             text |-> text_score,
                             metadata |-> metadata_score,
                             statistical |-> statistical_score],
       reasons |-> reasons,
       is_anomaly |-> final_score > 5000,
       confidence |-> Min(3, Len(reasons))]

\* str(row.get('video_id', str(idx))) of the row at 0-based index idx
VideoId(row, idx) == RowGet(row, "video_id", IndexStr(idx))

\* ------------------------------------------------------------------------
\* Queries
\* ------------------------------------------------------------------------

get_anomaly_explanation(explanations, video_id) ==
  IF HasKey(explanations, video_id) THEN DictItem(explanations, video_id) ELSE None

\* a sort that puts an item ahead of the earlier items of the same score
InsertUnstable(sorted, item) ==
  LET ahead == Cardinality({i \in 1..Len(sorted) :
                              sorted[i].data.final_score > item.data.final_score})
  IN  SubSeq(sorted, 1, ahead) \o <<item>> \o SubSeq(sorted, ahead + 1, Len(sorted))

\* sorted(items, key=final_score, reverse=True): a stable sort; an item goes
\* behind every item whose score is at least its own
InsertDescending(sorted, item) ==
  LET ahead == Cardinality({i \in 1..Len(sorted) :
                              sorted[i].data.final_score >= item.data.final_score})
  IN  SubSeq(sorted, 1, ahead) \o <<item>> \o SubSeq(sorted, ahead + 1, Len(sorted))

RECURSIVE SortedDescending(_)
SortedDescending(items) ==
  IF items = <<>> THEN <<>>
  ELSE InsertDescending(SortedDescending(SubSeq(items, 1, Len(items) - 1)),
                        items[Len(items)])

get_top_anomalies(explanations, n, min_score) ==
  IF explanations = <<>> THEN <<>>
  ELSE LET filtered_anomalies ==
             SelectSeq(explanations, LAMBDA item : item.data.final_score >= min_score)
           sorted_anomalies == SortedDescending(filtered_anomalies)
           first == Take(sorted_anomalies, n)
       IN  [i \in 1..Len(first) |->
              <<first[i].id, first[i].data.final_score, first[i].data.reasons>>]

\* floor of the square root
RECURSIVE SqrtBetween(_, _, _)
SqrtBetween(x, lo, hi) ==
  IF lo >= hi THEN lo
  ELSE LET mid == (lo + hi + 1) \div 2
       IN  IF mid * mid <= x THEN SqrtBetween(x, mid, hi) ELSE SqrtBetween(x, lo, mid - 1)

Sqrt(x) == SqrtBetween(x, 0, 46340)

\* np.median
Median(scores) ==
  LET sorted == SortAsc(scores)
      n == Len(scores)
  IN  IF n % 2 = 1 THEN sorted[(n + 1) \div 2]
      ELSE (sorted[n \div 2] + sorted[n \div 2 + 1]) \div 2

\* statistics that leave the first stored explanation out of the counts
StatisticsWithoutFirst(explanations) ==
  IF explanations = <<>>
  THEN [error |-> "No anomaly analysis available"]
  ELSE LET n == Len(explanations)
           scores == [i \in 1..n |-> explanations[i].data.final_score]
       IN  [total_videos |-> n,
            high_anomalies |->
              Cardinality({i \in 2..n : explanations[i].data.severity = "High"}),
            medium_anomalies |->
              Cardinality({i \in 2..n : explanations[i].data.severity = "Medium"}),
            low_anomalies |->
              Cardinality({i \in 2..n : explanations[i].data.severity = "Low"}),
            mean_score |-> SumSeq(scores) \div n,
            median_score |-> Median(scores),
            max_score |-> SeqMax(scores),
            min_score |-> SeqMin(scores),
            std_score |-> 0,
            anomaly_rate |-> [count |-> Cardinality({i \in 2..n :
                                                       explanations[i].data.is_anomaly}),
                              of |-> n]]

get_anomaly_statistics(explanations) ==
  IF explanations = <<>>
  THEN [error |-> "No anomaly analysis available"]
  ELSE LET n == Len(explanations)
           scores == [i \in 1..n |-> explanations[i].data.final_score]
           severities == [i \in 1..n |-> explanations[i].data.severity]
           Count(level) == Cardinality({i \in 1..n : severities[i] = level})
           mean == SumSeq(scores) \div n
       IN  [total_videos |-> n,
            high_anomalies |-> Count("High"),
            medium_anomalies |-> Count("Medium"),
            low_anomalies |-> Count("Low"),
            mean_score |-> mean,
            median_score |-> Median(scores),
            max_score |-> SeqMax(scores),
            min_score |-> SeqMin(scores),
            std_score |-> Sqrt(SumSeq([i \in 1..n |->
                                         (scores[i] - mean) * (scores[i] - mean)]) \div n),
            anomaly_rate |-> [count |-> Cardinality({i \in 1..n :
                                                       explanations[i].data.is_anomaly}),
                              of |-> n]]

\* ------------------------------------------------------------------------
\* Persistence
\* ------------------------------------------------------------------------

\* A file is missing, holds bytes that do not unpickle, or holds a pickled
\* dictionary (a function from its keys).  pickle writes and reads back
\* dictionaries, lists, strings, booleans and floats unchanged.
Missing == [kind |-> "missing"]

Corrupt == [kind |-> "corrupt"]

Pickled(data) == [kind |-> "pickle", data |-> data]

\* dict.get(key, default)
DictGet(d, key, default) == IF key \in DOMAIN d THEN d[key] ELSE default

\* a dump that leaves the configuration out
SaveDataNoConfig(self) ==
  [anomaly_explanations |-> self.anomaly_explanations,
   fitted |-> self.fitted,
   statistics |-> get_anomaly_statistics(self.anomaly_explanations)]

\* the dictionary save_anomaly_results dumps (lines 428-439); self is the detector
SaveData(self) ==
  [anomaly_explanations |-> self.anomaly_explanations,
   fitted |-> self.fitted,
   config |-> [contamination |-> self.contamination,
               embedding_weight |-> self.embedding_weight,
               text_weight |-> self.text_weight,
               metadata_weight |-> self.metadata_weight,
               statistical_weight |-> self.statistical_weight],
   statistics |-> get_anomaly_statistics(self.anomaly_explanations)]

\* save_anomaly_results: the file it leaves and whether it raises.  io is
\* "ok", "open" (open() fails: the file is untouched) or "dump" (the write
\* fails after open() truncated the file)
save_anomaly_results(self, content, io) ==
  IF io = "open" THEN [raised |-> TRUE, content |-> content]
  ELSE IF io = "dump" THEN [raised |-> TRUE, content |-> Corrupt]
  ELSE [raised |-> FALSE, content |-> Pickled(SaveData(self))]

\* load_anomaly_results: the detector it leaves and whether it raises
load_anomaly_results(self, content) ==
  IF content.kind # "pickle"
  THEN [raised |-> TRUE, self |-> self]                      \* open / pickle.load
  ELSE LET save_data == content.data IN
       IF "anomaly_explanations" \notin DOMAIN save_data
       THEN [raised |-> TRUE, self |-> self]                 \* KeyError, line 456
       ELSE LET self1 == [self EXCEPT
                            !.anomaly_explanations = save_data.anomaly_explanations]
            IN
            IF "fitted" \notin DOMAIN save_data
            THEN [raised |-> TRUE, self |-> self1]           \* KeyError, line 457
            ELSE LET self2 == [self1 EXCEPT !.fitted = save_data.fitted] IN
                 IF "config" \notin DOMAIN save_data
                 THEN [raised |-> FALSE, self |-> self2]
                 ELSE LET config_data == save_data.config IN
                      IF config_data = None
                      THEN [raised |-> TRUE, self |-> self2] \* AttributeError, line 462
                      ELSE [raised |-> FALSE,
                            self |->
                              [self2 EXCEPT
                                 !.contamination =
                                   DictGet(config_data, "contamination", self.contamination),
                                 !.embedding_weight =
                                   DictGet(config_data, "embedding_weight", self.embedding_weight),
                                 !.text_weight =
                                   DictGet(config_data, "text_weight", self.text_weight),
                                 !.metadata_weight =
                                   DictGet(config_data, "metadata_weight", self.metadata_weight),
                                 !.statistical_weight =
                                   DictGet(config_data, "statistical_weight",
                                           self.statistical_weight)]]

\* ------------------------------------------------------------------------
\* detect_anomalies
\* ------------------------------------------------------------------------

\* AdvancedAnomalyDetector(contamination) under a configuration with these weights
NewDetector(setup) ==
  [anomaly_explanations |-> <<>>,
   fitted |-> FALSE,
   contamination |-> setup.contamination,
   isolation_forest |-> [contamination |-> setup.contamination],
   embedding_weight |-> setup.weights.embedding,
   text_weight |-> setup.weights.text,
   metadata_weight |-> setup.weights.metadata,
   statistical_weight |-> setup.weights.statistical]

Weights(self) ==
  [embedding |-> self.embedding_weight, text |-> self.text_weight,
   metadata |-> self.metadata_weight, statistical |-> self.statistical_weight]

\* the same with the length check made after the extractors ran
ComputeScoresLateCheck(self, video_data, embeddings, fault) ==
  LET N == Len(video_data.rows)
      Raise(called) == [raised |-> TRUE, called |-> called]
      embedding_scores ==
        _detect_embedding_anomalies(embeddings, self.contamination,
                                    self.isolation_forest.contamination,
                                    "embedding" \in fault)
      text_scores == _detect_text_anomalies(video_data)
      metadata_scores == _detect_metadata_anomalies(video_data)
      statistical_scores == _detect_statistical_anomalies(video_data)
  IN  IF embeddings.rows # N
      THEN Raise(<<"embedding", "text", "metadata", "statistical">>)
      ELSE IF "text" \in fault THEN Raise(<<"embedding", "text">>)
      ELSE IF "metadata" \in fault THEN Raise(<<"embedding", "text", "metadata">>)
      ELSE IF "statistical" \in fault
      THEN Raise(<<"embedding", "text", "metadata", "statistical">>)
      ELSE IF CombineRaises(embedding_scores)
      THEN Raise(<<"embedding", "text", "metadata", "statistical", "combine">>)
      ELSE [raised |-> FALSE,
            called |-> <<"embedding", "text", "metadata", "statistical", "combine">>,
            embedding_scores |-> embedding_scores,
            text_scores |-> text_scores,
            metadata_scores |-> metadata_scores,
            statistical_scores |-> statistical_scores,
            final_scores |->
              _combine_anomaly_scores(Weights(self), embedding_scores, text_scores,
                                      metadata_scores, statistical_scores)]

\* Lines 48-75: validation, the four extractors and the combiner.  fault is
\* the set of extractors whose computation raises on this input.  called
\* lists the steps entered, in order.
ComputeScores(self, video_data, embeddings, fault) ==
  LET N == Len(video_data.rows)
      Raise(called) == [raised |-> TRUE, called |-> called]
      embedding_scores ==
        _detect_embedding_anomalies(embeddings, self.contamination,
                                    self.isolation_forest.contamination,
                                    "embedding" \in fault)
      text_scores == _detect_text_anomalies(video_data)
      metadata_scores == _detect_metadata_anomalies(video_data)
      statistical_scores == _detect_statistical_anomalies(video_data)
  IN  IF embeddings.rows # N THEN Raise(<<>>)
      ELSE IF "text" \in fault THEN Raise(<<"embedding", "text">>)
      ELSE IF "metadata" \in fault THEN Raise(<<"embedding", "text", "metadata">>)
      ELSE IF "statistical" \in fault
      THEN Raise(<<"embedding", "text", "metadata", "statistical">>)
      ELSE IF CombineRaises(embedding_scores)
      THEN Raise(<<"embedding", "text", "metadata", "statistical", "combine">>)
      ELSE [raised |-> FALSE,
            called |-> <<"embedding", "text", "metadata", "statistical", "combine">>,
            embedding_scores |-> embedding_scores,
            text_scores |-> text_scores,
            metadata_scores |-> metadata_scores,
            statistical_scores |-> statistical_scores,
            final_scores |->
              _combine_anomaly_scores(Weights(self), embedding_scores, text_scores,
                                      metadata_scores, statistical_scores)]

\* one turn of the loop of _generate_anomaly_explanations (lines 317-376),
\* for the row at 0-based index idx
ExplainRow(explanations, video_data, scores, idx) ==
  LET row == video_data.rows[idx + 1] IN
  DictSet(explanations, VideoId(row, idx),
          Explanation(row, scores.embedding_scores[idx + 1], scores.text_scores[idx + 1],
                      scores.metadata_scores[idx + 1], scores.statistical_scores[idx + 1],
                      scores.final_scores[idx + 1]))

RECURSIVE ExplainFrom(_, _, _, _)
ExplainFrom(explanations, video_data, scores, idx) ==
  IF idx >= Len(video_data.rows) THEN explanations
  ELSE ExplainFrom(ExplainRow(explanations, video_data, scores, idx),
                   video_data, scores, idx + 1)

\* not clearing the dictionary before the loop
KeptExplanations(explanations) == explanations

\* line 313: the dictionary that replaces the detector's before the loop fills it
ResetExplanations(explanations) == <<>>

\* the dictionary _generate_anomaly_explanations leaves in place of explanations
_generate_anomaly_explanations(explanations, video_data, scores) ==
  ExplainFrom(ResetExplanations(explanations), video_data, scores, 0)


\* ------------------------------------------------------------------------
\* Inputs: embedding matrices, failures, configurations, files
\* ------------------------------------------------------------------------

\* what decision_function gives the rows of the embedding matrices
DecisionValues == <<5, -3, 2, 4, 0, 1, -8, 3>>

Dimensions == {ConfigDimension, ConfigDimension \div 2}

Embeddings ==
  {[rows |-> n, dim |-> d, decision |-> Take(DecisionValues, n)] :
     n \in 0..MaxRows, d \in Dimensions}

Extractors == {"embedding", "text", "metadata", "statistical"}

\* at most one extractor fails on an input
Faults == {{}} \cup {{e} : e \in Extractors}

\* the detector is built with one of these: contamination (the constructor's
\* argument) and the weights config.anomaly holds at that time
Setups ==
  {[contamination |-> 1, weights |-> ConfigWeights],
   [contamination |-> 2,
    weights |-> [embedding |-> 10, text |-> 6, metadata |-> 2, statistical |-> 2]]}

Paths == {"data/anomaly_results.pkl"}

\* an explanation as an earlier run stored it
Stored(id, final_score) ==
  [id |-> id,
   data |-> [final_score |-> final_score, severity |-> Severity(final_score),
             component_scores |-> [embedding |-> 10, text |-> 0, metadata |-> 0,
                                   statistical |-> 0],
             reasons |-> <<Reason("embedding", 10, <<>>)>>,
             is_anomaly |-> final_score > 5000, confidence |-> 1]]

\* explanations that an earlier process produced; two of them share a score
ForeignExplanations ==
  <<Stored("v", 9000), Stored("w", 2000), Stored("x", 6000), Stored("y", 5000),
    Stored("z", 1000), Stored("a", 6000)>>

\* results an earlier process saved
EarlierResults ==
  {Pickled([anomaly_explanations |-> ForeignExplanations, fitted |-> TRUE]),
   Pickled([anomaly_explanations |-> <<>>, fitted |-> TRUE])}

\* what another program may leave in a file
ForeignContents ==
  {Corrupt,
   Pickled([fitted |-> TRUE]),
   Pickled([anomaly_explanations |-> Take(ForeignExplanations, 1)]),
   Pickled([anomaly_explanations |-> Take(ForeignExplanations, 1), fitted |-> TRUE,
            config |-> None])}

VideoIds == {"a", "x", "missing"}

MinScores == {0, 5000}

\* ------------------------------------------------------------------------
\* The detection run
\* ------------------------------------------------------------------------

\* the steps detect_anomalies enters, in order, when nothing raises
AllSteps == <<"embedding", "text", "metadata", "statistical", "combine", "explain">>

\* the store emptied before the extractors run, so that a run that raises
\* leaves it empty
DetectResettingFirst(self, video_data, embeddings, fault) ==
  LET scores == ComputeScores(self, video_data, embeddings, fault) IN
  IF scores.raised
  THEN [raised |-> TRUE, called |-> scores.called,
        self |-> [self EXCEPT !.anomaly_explanations = <<>>]]
  ELSE [raised |-> FALSE,
        called |-> Append(scores.called, "explain"),
        self |-> [self EXCEPT
                    !.anomaly_explanations =
                      _generate_anomaly_explanations(self.anomaly_explanations, video_data,
                                                     scores),
                    !.fitted = TRUE]]

\* a run that returns at once on a detector that is already fitted
DetectOnceFitted(self, video_data, embeddings, fault) ==
  LET scores == ComputeScores(self, video_data, embeddings, fault) IN
  IF scores.raised
  THEN [raised |-> TRUE, called |-> scores.called, self |-> self]
  ELSE [raised |-> FALSE,
        called |-> Append(scores.called, "explain"),
        self |-> IF self.fitted THEN self
                 ELSE [self EXCEPT
                         !.anomaly_explanations =
                           _generate_anomaly_explanations(self.anomaly_explanations,
                                                          video_data, scores),
                         !.fitted = TRUE]]

\* detect_anomalies as one call: the detector it leaves, whether it raises
detect_anomalies(self, video_data, embeddings, fault) ==
  LET scores == ComputeScores(self, video_data, embeddings, fault) IN
  IF scores.raised
  THEN [raised |-> TRUE, called |-> scores.called, self |-> self]
  ELSE [raised |-> FALSE,
        called |-> Append(scores.called, "explain"),
        self |-> [self EXCEPT
                    !.anomaly_explanations =
                      _generate_anomaly_explanations(self.anomaly_explanations, video_data,
                                                     scores),
                    !.fitted = TRUE]]

\* ------------------------------------------------------------------------
\* State
\* ------------------------------------------------------------------------

VARIABLES
  anomaly_explanations,   \* self.anomaly_explanations
  fitted,                 \* self.fitted
  contamination,          \* self.contamination
  isolation_forest,       \* self.isolation_forest (its contamination parameter)
  embedding_weight,       \* self.embedding_weight
  text_weight,            \* self.text_weight
  metadata_weight,        \* self.metadata_weight
  statistical_weight,     \* self.statistical_weight
  files,                  \* the file system: path -> content
  saved,                  \* history: path -> the detector as save_anomaly_results saw it
  run,                    \* the detect_anomalies call in progress, if any
  last                    \* the last call: its name, arguments and result

detector ==
  <<anomaly_explanations, fitted, contamination, isolation_forest,
    embedding_weight, text_weight, metadata_weight, statistical_weight>>

vars == <<detector, files, saved, run, last>>

\* the detector object
Self ==
  [anomaly_explanations |-> anomaly_explanations,
   fitted |-> fitted,
   contamination |-> contamination,
   isolation_forest |-> isolation_forest,
   embedding_weight |-> embedding_weight,
   text_weight |-> text_weight,
   metadata_weight |-> metadata_weight,
   statistical_weight |-> statistical_weight]

\* the detector object becomes self
Becomes(self) ==
  /\ anomaly_explanations' = self.anomaly_explanations
  /\ fitted' = self.fitted
  /\ contamination' = self.contamination
  /\ isolation_forest' = self.isolation_forest
  /\ embedding_weight' = self.embedding_weight
  /\ text_weight' = self.text_weight
  /\ metadata_weight' = self.metadata_weight
  /\ statistical_weight' = self.statistical_weight

\* the detector object is self
Is(self) ==
  /\ anomaly_explanations = self.anomaly_explanations
  /\ fitted = self.fitted
  /\ contamination = self.contamination
  /\ isolation_forest = self.isolation_forest
  /\ embedding_weight = self.embedding_weight
  /\ text_weight = self.text_weight
  /\ metadata_weight = self.metadata_weight
  /\ statistical_weight = self.statistical_weight

Idle == [pc |-> "idle"]

Init ==
  /\ \E setup \in Setups : Is(NewDetector(setup))
  /\ files = [path \in Paths |-> Missing]
  /\ saved = [path \in Paths |-> None]
  /\ run = Idle
  /\ last = [op |-> "__init__"]

\* ------------------------------------------------------------------------
\* The calls, each from call to return
\* ------------------------------------------------------------------------

\* a new detector object replaces the old one (the files stay)
Construct(setup) ==
  /\ run = Idle
  /\ Becomes(NewDetector(setup))
  /\ last' = [op |-> "__init__"]
  /\ UNCHANGED <<files, saved, run>>

\* what a detect_anomalies call was given and what came of it
Call(raised, called, k, embeddings, fault) ==
  [op |-> "detect_anomalies", raised |-> raised, called |-> called, frame |-> k,
   aligned |-> embeddings.rows = Len(Frames[k].rows),
   dimension |-> embeddings.dim,
   fault |-> fault,
   repeat |-> /\ last.op = "detect_anomalies" /\ ~last.raised
              /\ last.frame = k /\ last.dimension = embeddings.dim /\ last.fault = fault]

\* detect_anomalies(embeddings, video_data)
Detect(k, embeddings, fault) ==
  /\ run = Idle
  /\ embeddings.rows # Len(Frames[k].rows) => fault = {}
  /\ LET r == detect_anomalies(Self, Frames[k], embeddings, fault) IN
       /\ Becomes(r.self)
       /\ last' = Call(r.raised, r.called, k, embeddings, fault)
  /\ UNCHANGED <<files, saved, run>>

GetExplanation(video_id) ==
  /\ last' = [op |-> "get_anomaly_explanation", video_id |-> video_id,
              result |-> get_anomaly_explanation(anomaly_explanations, video_id)]
  /\ UNCHANGED <<detector, files, saved, run>>

GetTop(n, min_score) ==
  /\ last' = [op |-> "get_top_anomalies", n |-> n, min_score |-> min_score,
              result |-> get_top_anomalies(anomaly_explanations, n, min_score)]
  /\ UNCHANGED <<detector, files, saved, run>>

GetStatistics ==
  /\ last' = [op |-> "get_anomaly_statistics",
              result |-> get_anomaly_statistics(anomaly_explanations)]
  /\ UNCHANGED <<detector, files, saved, run>>

\* a save that hands the store over to the file and empties it
SaveConsuming(path, io) ==
  /\ run = Idle
  /\ LET r == save_anomaly_results(Self, files[path], io) IN
       /\ files' = [files EXCEPT ![path] = r.content]
       /\ saved' = [saved EXCEPT ![path] = IF r.raised THEN IF io = "open" THEN @ ELSE None
                                           ELSE Self]
       /\ last' = [op |-> "save_anomaly_results", path |-> path, raised |-> r.raised]
  /\ anomaly_explanations' = <<>>
  /\ UNCHANGED <<fitted, contamination, isolation_forest, embedding_weight,
                 text_weight, metadata_weight, statistical_weight, run>>

Save(path, io) ==
  /\ run = Idle
  /\ LET r == save_anomaly_results(Self, files[path], io) IN
       /\ files' = [files EXCEPT ![path] = r.content]
       /\ saved' = [saved EXCEPT ![path] = IF r.raised THEN IF io = "open" THEN @ ELSE None
                                           ELSE Self]
       /\ last' = [op |-> "save_anomaly_results", path |-> path, raised |-> r.raised]
  /\ UNCHANGED <<detector, run>>

Load(path) ==
  /\ run = Idle
  /\ LET r == load_anomaly_results(Self, files[path]) IN
       /\ Becomes(r.self)
       /\ last' = [op |-> "load_anomaly_results", path |-> path, raised |-> r.raised]
  /\ UNCHANGED <<files, saved, run>>

\* another program, or an earlier process, leaves the file
ForeignWrite(path, content) ==
  /\ run = Idle
  /\ files[path] # content
  /\ files' = [files EXCEPT ![path] = content]
  /\ saved' = [saved EXCEPT ![path] = None]
  /\ last' = [op |-> "foreign write"]
  /\ UNCHANGED <<detector, run>>

\* ------------------------------------------------------------------------
\* Detection and queries on a detector that may have loaded earlier results
\* ------------------------------------------------------------------------

Next ==
  \/ \E setup \in Setups : Construct(setup)
  \/ \E k \in 1..Len(Frames), embeddings \in Embeddings, fault \in Faults :
       Detect(k, embeddings, fault)
  \/ \E video_id \in VideoIds : GetExplanation(video_id)
  \/ \E n \in 0..MaxTopN, min_score \in MinScores : GetTop(n, min_score)
  \/ GetStatistics
  \/ \E path \in Paths : Load(path)
  \/ \E path \in Paths, content \in EarlierResults : ForeignWrite(path, content)

Spec == Init /\ [][Next]_vars

\* ------------------------------------------------------------------------
\* Saving and loading
\* ------------------------------------------------------------------------

NextStore ==
  \/ \E setup \in Setups : Construct(setup)
  \/ \E k \in 1..Len(Frames), embeddings \in Embeddings :
       /\ embeddings.rows = Len(Frames[k].rows)
       /\ embeddings.dim = ConfigDimension
       /\ Detect(k, embeddings, {})
  \/ \E path \in Paths, io \in {"ok", "open", "dump"} : Save(path, io)
  \/ \E path \in Paths : Load(path)
  \/ \E path \in Paths, content \in ForeignContents : ForeignWrite(path, content)

SpecStore == Init /\ [][NextStore]_vars

\* saving, loading and the queries together
NextReadOnly ==
  \/ NextStore
  \/ \E video_id \in VideoIds : GetExplanation(video_id)
  \/ \E n \in 0..MaxTopN, min_score \in MinScores : GetTop(n, min_score)
  \/ GetStatistics

SpecReadOnly == Init /\ [][NextReadOnly]_vars

\* ------------------------------------------------------------------------
\* A detection run step by step, with readers in other threads
\* ------------------------------------------------------------------------

\* fitted set when the loop begins, not after it
DetectBeginFitted(k, embeddings, fault) ==
  /\ run = Idle
  /\ LET scores == ComputeScores(Self, Frames[k], embeddings, fault) IN
       IF scores.raised
       THEN /\ last' = Call(TRUE, scores.called, k, embeddings, fault)
            /\ UNCHANGED <<detector, run>>
       ELSE /\ anomaly_explanations' = ResetExplanations(anomaly_explanations)
            /\ fitted' = TRUE
            /\ run' = [pc |-> "explain", frame |-> k, embeddings |-> embeddings,
                       fault |-> fault, scores |-> scores, idx |-> 0,
                       previous |-> anomaly_explanations, refit |-> fitted]
            /\ last' = [op |-> "detect_anomalies: line 313"]
            /\ UNCHANGED <<contamination, isolation_forest, embedding_weight,
                           text_weight, metadata_weight, statistical_weight>>
  /\ UNCHANGED <<files, saved>>

\* detect_anomalies from the call up to and including line 313, where
\* _generate_anomaly_explanations installs an empty dictionary; a call that
\* raises before that returns here
DetectBegin(k, embeddings, fault) ==
  /\ run = Idle
  /\ LET scores == ComputeScores(Self, Frames[k], embeddings, fault) IN
       IF scores.raised
       THEN /\ last' = Call(TRUE, scores.called, k, embeddings, fault)
            /\ UNCHANGED <<detector, run>>
       ELSE /\ anomaly_explanations' = ResetExplanations(anomaly_explanations)
            /\ run' = [pc |-> "explain", frame |-> k, embeddings |-> embeddings,
                       fault |-> fault, scores |-> scores, idx |-> 0,
                       previous |-> anomaly_explanations, refit |-> fitted]
            /\ last' = [op |-> "detect_anomalies: line 313"]
            /\ UNCHANGED <<fitted, contamination, isolation_forest, embedding_weight,
                           text_weight, metadata_weight, statistical_weight>>
  /\ UNCHANGED <<files, saved>>

\* one turn of the loop of lines 317-376
ExplainStep ==
  /\ run # Idle
  /\ run.idx < Len(Frames[run.frame].rows)
  /\ anomaly_explanations' =
       ExplainRow(anomaly_explanations, Frames[run.frame], run.scores, run.idx)
  /\ run' = [run EXCEPT !.idx = @ + 1]
  /\ last' = [op |-> "detect_anomalies: line 364"]
  /\ UNCHANGED <<fitted, contamination, isolation_forest, embedding_weight,
                 text_weight, metadata_weight, statistical_weight, files, saved>>

\* line 83 and the return
DetectReturn ==
  /\ run # Idle
  /\ run.idx = Len(Frames[run.frame].rows)
  /\ fitted' = TRUE
  /\ run' = Idle
  /\ last' = Call(FALSE, Append(run.scores.called, "explain"), run.frame, run.embeddings,
                  run.fault)
  /\ UNCHANGED <<anomaly_explanations, contamination, isolation_forest, embedding_weight,
                 text_weight, metadata_weight, statistical_weight, files, saved>>

NextRun ==
  \/ \E setup \in Setups : Construct(setup)
  \/ \E k \in 1..Len(Frames), embeddings \in Embeddings, fault \in {{}, {"embedding"}} :
       /\ embeddings.rows = Len(Frames[k].rows)
       /\ embeddings.dim = ConfigDimension
       /\ DetectBegin(k, embeddings, fault)
  \/ ExplainStep
  \/ DetectReturn
  \/ \E video_id \in VideoIds : GetExplanation(video_id)
  \/ \E n \in 0..MaxTopN, min_score \in MinScores : GetTop(n, min_score)
  \/ GetStatistics

SpecRun == Init /\ [][NextRun]_vars

\* ------------------------------------------------------------------------
\* The combiner on its own
\* ------------------------------------------------------------------------

\* the four component scores of one record
Scores(e, t, m, s) == [embedding |-> e, text |-> t, metadata |-> m, statistical |-> s]

\* component scores of records, from none to all at 1.0
ScorePool ==
  {Scores(0, 0, 0, 0), Scores(10, 10, 10, 10), Scores(10, 0, 0, 0), Scores(0, 5, 0, 0),
   Scores(5, 5, 5, 5), Scores(0, 2, 9, 3)}

\* the score vectors of batches of 1..MaxRows records
ScoreBatches == UNION {[1..n -> ScorePool] : n \in 1..MaxRows}

\* non-negative weights that sum to 1 (twentieths)
WeightChoices ==
  {ConfigWeights, Scores(10, 6, 2, 2), Scores(20, 0, 0, 0), Scores(0, 0, 0, 20),
   Scores(5, 5, 5, 5)}

\* the state before a call of op with one of the given arguments, not yet run
InitCall(op, arguments) ==
  /\ Is(NewDetector([contamination |-> 1, weights |-> ConfigWeights]))
  /\ files = [path \in Paths |-> Missing]
  /\ saved = [path \in Paths |-> None]
  /\ run \in {[pc |-> "call", op |-> op, args |-> args] : args \in arguments}
  /\ last = [op |-> "__init__"]

\* the pending call returns result
Return(result) ==
  /\ last' = [op |-> run.op, args |-> run.args, result |-> result]
  /\ run' = Idle
  /\ UNCHANGED <<detector, files, saved>>

\* _combine_anomaly_scores(embedding_scores, text_scores, metadata_scores,
\* statistical_scores) under the weights of the detector
Combine ==
  /\ run # Idle /\ run.pc = "call" /\ run.op = "_combine_anomaly_scores"
  /\ LET Component(name) == [i \in 1..Len(run.args.scores) |-> run.args.scores[i][name]]
     IN  Return(_combine_anomaly_scores(run.args.weights, Component("embedding"),
                                        Component("text"), Component("metadata"),
                                        Component("statistical")))

SpecCombine ==
  /\ InitCall("_combine_anomaly_scores",
              {[weights |-> w, scores |-> b] : w \in WeightChoices, b \in ScoreBatches})
  /\ [][Combine]_vars


\* component scores on both sides of the thresholds of the reasons
ScoreLevels == {2, 3, 4, 5, 6}

\* final scores on both sides of the thresholds of severity and is_anomaly
FinalLevels == {0, 4000, 4001, 5000, 5001, 7000, 7001, FinalOne}

\* one turn of the loop of _generate_anomaly_explanations: the dictionary
\* built for the row from its five scores
Explain ==
  /\ run # Idle /\ run.pc = "call" /\ run.op = "_generate_anomaly_explanations"
  /\ Return(Explanation(run.args.row, run.args.embedding, run.args.text,
                        run.args.metadata, run.args.statistical, run.args.final))

SpecExplain ==
  /\ InitCall("_generate_anomaly_explanations",
              {[row |-> row, embedding |-> e, text |-> t, metadata |-> m,
                statistical |-> s, final |-> f] :
                 row \in PoolRows, e \in ScoreLevels, t \in ScoreLevels,
                 m \in ScoreLevels, s \in ScoreLevels, f \in FinalLevels})
  /\ [][Explain]_vars

\* ------------------------------------------------------------------------
\* Configurations of any kind
\* ------------------------------------------------------------------------

\* what a caller and config.anomaly may hold besides Setups: contamination
\* 0.0 and 1.0, and a negative statistical weight
AnySetups ==
  Setups \cup
  {[contamination |-> 0, weights |-> ConfigWeights],
   [contamination |-> 10, weights |-> ConfigWeights],
   [contamination |-> 1,
    weights |-> [embedding |-> 8, text |-> 7, metadata |-> 3, statistical |-> -2]]}

NextConfig ==
  \/ \E setup \in AnySetups : Construct(setup)
  \/ \E k \in 1..Len(Frames), embeddings \in Embeddings, fault \in Faults :
       Detect(k, embeddings, fault)

SpecConfig ==
  /\ \E setup \in AnySetups : Is(NewDetector(setup))
  /\ files = [path \in Paths |-> Missing]
  /\ saved = [path \in Paths |-> None]
  /\ run = Idle
  /\ last = [op |-> "__init__"]
  /\ [][NextConfig]_vars

\* ------------------------------------------------------------------------
\* The rarity bonus of one field of one record
\* ------------------------------------------------------------------------

\* lines 194-198 for a value that occurs count times among the total
\* non-missing values of its field
Rarity ==
  /\ run # Idle /\ run.pc = "call" /\ run.op = "_detect_metadata_anomalies: rarity"
  /\ Return(RarityBonus(run.args.count, run.args.total))

\* batches of 1, 20, 21, 100, 101 and 200 records: frequencies on both
\* sides of 1% and 5%
SpecRarity ==
  /\ InitCall("_detect_metadata_anomalies: rarity",
              {a \in [count : 1..200, total : {1, 20, 21, 100, 101, 200}] :
                 a.count <= a.total})
  /\ [][Rarity]_vars

\* ------------------------------------------------------------------------
\* The text score of one record
\* ------------------------------------------------------------------------

\* what the interpretation and the description of a record may hold: a
\* text (the second is "DANGER AHEAD", the last has 231 characters) or a
\* missing cell
TextCells ==
  {<<>>, <<"D", "A", "N", "G", "E", "R", " ", "A", "H", "E", "A", "D">>,
   T_caps, T_normal, T_crash, T_plain, T_rain,
   T_plain \o T_plain \o T_plain \o T_plain \o T_plain \o T_plain \o T_plain,
   NaN}

\* a record of a batch that has the given ones of the two text columns
TextRow(interpretation, description, columns) ==
  [col \in columns |-> IF col = "interpretation" THEN interpretation ELSE description]

\* one turn of the loop of _detect_text_anomalies
Text ==
  /\ run # Idle /\ run.pc = "call" /\ run.op = "_detect_text_anomalies"
  /\ Return(TextRowScore(TextRow(run.args.interpretation, run.args.description,
                                 run.args.columns)))

SpecText ==
  /\ InitCall("_detect_text_anomalies",
              [interpretation : TextCells, description : TextCells,
               columns : SUBSET {"interpretation", "description-step-by-step"}])
  /\ [][Text]_vars
\* ------------------------------------------------------------------------
\* Properties
\* ------------------------------------------------------------------------

\* the answer of the last call, when it was a call of op
Answered(op) == last.op = op

\* position i of the store comes before position j in the ranking: higher
\* score first, and among equal scores the one inserted first
RankedBefore(store, i, j) ==
  \/ store[i].data.final_score > store[j].data.final_score
  \/ store[i].data.final_score = store[j].data.final_score /\ i < j

\* C1: get_top_anomalies(n, min_score) returns exactly the stored entries
\* whose final_score >= min_score, by descending final_score, entries of equal
\* score in insertion order, cut to the first n, each as (id, final_score,
\* reasons) of the stored explanation.
C1_TopFilteredSortedTruncated ==
  Answered("get_top_anomalies") =>
    LET store == anomaly_explanations
        result == last.result
        qualifying == {i \in 1..Len(store) : store[i].data.final_score >= last.min_score}
        Rank(i) == 1 + Cardinality({j \in qualifying : RankedBefore(store, j, i)})
    IN  /\ Len(result) = Min(last.n, Cardinality(qualifying))
        /\ \A r \in 1..Len(result) :
             \E i \in qualifying :
               /\ Rank(i) = r
               /\ result[r] = <<store[i].id, store[i].data.final_score,
                                store[i].data.reasons>>

\* the scenario of C1 on a store with two entries of score 0.6: n = 2 and
\* min_score = 0.5 give the 0.9 entry, then the first inserted 0.6 entry
C1_Witness ==
  /\ Answered("get_top_anomalies")
  /\ anomaly_explanations = ForeignExplanations
  /\ last.n = 2 /\ last.min_score = 5000
  /\ [r \in 1..Len(last.result) |-> last.result[r][1]] = <<"v", "x">>
  /\ [r \in 1..Len(last.result) |-> last.result[r][2]] = <<9000, 6000>>

\* the three query operations
Queries == {"get_anomaly_explanation", "get_top_anomalies", "get_anomaly_statistics"}

\* stores that fitted detectors hold after loading earlier results
LoadedStores == {content.data.anomaly_explanations : content \in EarlierResults}

\* C2: on a detector with fitted false, each of get_anomaly_explanation,
\* get_top_anomalies and get_anomaly_statistics returns a not-ready signal: a
\* result that differs from every result the same operation returns on a
\* fitted detector (such as "id not found" or "no record reaches min_score").
C2_NotReadySignal ==
  ~fitted =>
    /\ Answered("get_anomaly_explanation") =>
         \A store \in LoadedStores, video_id \in VideoIds :
           last.result # get_anomaly_explanation(store, video_id)
    /\ Answered("get_top_anomalies") =>
         \A store \in LoadedStores, n \in 0..MaxTopN, min_score \in MinScores :
           last.result # get_top_anomalies(store, n, min_score)
    /\ Answered("get_anomaly_statistics") =>
         \A store \in LoadedStores : last.result # get_anomaly_statistics(store)

\* C3: whenever load_anomaly_results raises, anomaly_explanations is exactly
\* what it was before the call.
C3_FailedLoadKeepsStore ==
  [][(last'.op = "load_anomaly_results" /\ last'.raised)
       => anomaly_explanations' = anomaly_explanations]_vars

\* the batch of the last detect_anomalies call
LastBatch == Frames[last.frame]

\* the identifiers of the rows of a batch, in row order
BatchIds(video_data) ==
  [i \in 1..Len(video_data.rows) |-> VideoId(video_data.rows[i], i - 1)]

UniqueIds(video_data) ==
  Cardinality({BatchIds(video_data)[i] : i \in 1..Len(video_data.rows)})
    = Len(video_data.rows)

\* C4: when the number of embedding rows differs from the number of records,
\* detect_anomalies raises before any extractor is invoked, and
\* anomaly_explanations and fitted keep the values they had before the call.
C4_MismatchRaisesBeforeExtractors ==
  [][(last'.op = "detect_anomalies" /\ ~last'.aligned)
       => /\ last'.raised
          /\ last'.called = <<>>
          /\ anomaly_explanations' = anomaly_explanations
          /\ fitted' = fitted]_vars

\* a fitted detector with explanations has just rejected a mismatched call
C4_Witness ==
  /\ Answered("detect_anomalies")
  /\ ~last.aligned /\ last.raised /\ last.called = <<>>
  /\ fitted /\ anomaly_explanations # <<>>

\* C5: when the embedding matrix has the right number of rows but not the
\* configured dimension, detect_anomalies aborts before any extractor runs;
\* such a batch never produces a fitted detector.
C5_WrongDimensionAborts ==
  (Answered("detect_anomalies") /\ last.aligned /\ last.dimension # ConfigDimension)
    => last.raised /\ last.called = <<>>

\* C6: for a non-empty, index-aligned batch the run always completes: a
\* failing extractor contributes zeros, nothing propagates out of
\* detect_anomalies, the explanations of the batch are stored and fitted is set.
C6_RunAlwaysCompletes ==
  (/\ Answered("detect_anomalies")
   /\ last.aligned /\ last.dimension = ConfigDimension
   /\ Len(LastBatch.rows) > 0)
    => /\ ~last.raised
       /\ fitted
       /\ KeySet(anomaly_explanations) =
            {BatchIds(LastBatch)[i] : i \in 1..Len(LastBatch.rows)}
       /\ \A e \in last.fault, i \in 1..Len(anomaly_explanations) :
            anomaly_explanations[i].data.component_scores[e] = 0

C8_RunReplacesStore ==
  (Answered("detect_anomalies") /\ ~last.raised /\ UniqueIds(LastBatch))
    => /\ KeySet(anomaly_explanations) =
            {BatchIds(LastBatch)[i] : i \in 1..Len(LastBatch.rows)}
       /\ Len(anomaly_explanations) = Len(LastBatch.rows)

\* a run on one record succeeded while the file holds earlier results with
\* other identifiers
C8_Witness ==
  /\ Answered("detect_anomalies") /\ ~last.raised
  /\ UniqueIds(LastBatch)
  /\ Len(LastBatch.rows) = 1
  /\ KeySet(anomaly_explanations) = {"0"}
  /\ \E path \in Paths :
       files[path] = Pickled([anomaly_explanations |-> ForeignExplanations,
                              fitted |-> TRUE])

\* C9: a reader calling a query while a re-run is in progress on a fitted
\* detector sees the complete mapping of the previous run or the complete
\* mapping of the new run, never an empty or partly filled one.
C9_ReadersSeeCompleteMapping ==
  (last.op \in Queries /\ run # Idle /\ run.refit)
    => anomaly_explanations \in
         {run.previous,
          _generate_anomaly_explanations(run.previous, Frames[run.frame], run.scores)}

\* C10: save_anomaly_results(path) followed by load_anomaly_results(path) on
\* any detector gives the saved store, the saved fitted flag, and the four
\* weights and the contamination of the saving detector, whatever the loading
\* detector was built with; the load does not raise.
C10_SaveLoadRoundTrip ==
  (Answered("load_anomaly_results") /\ saved[last.path] # None)
    => /\ ~last.raised
       /\ anomaly_explanations = saved[last.path].anomaly_explanations
       /\ fitted = saved[last.path].fitted
       /\ Weights(Self) = Weights(saved[last.path])
       /\ contamination = saved[last.path].contamination

\* a detector built with another contamination has loaded a fitted store
C10_Witness ==
  /\ Answered("load_anomaly_results") /\ ~last.raised
  /\ saved[last.path] # None
  /\ fitted /\ anomaly_explanations # <<>>
  /\ isolation_forest.contamination # contamination

\* C11: fitted turns from false to true only in a detect_anomalies call or a
\* load_anomaly_results call that returns; a call of either that raises never
\* turns it true.
C11_FittedOnlyAfterSuccess ==
  [][(~fitted /\ fitted')
       => /\ last'.op \in {"detect_anomalies", "load_anomaly_results"}
          /\ ~last'.raised]_vars

\* C12: on a non-empty store get_anomaly_statistics counts every stored
\* explanation: total_videos is their number, the three severity counts add
\* up to it, min_score <= median_score <= max_score, and anomaly_rate is the
\* number of explanations with is_anomaly over total_videos; on an empty
\* store it returns the no-data marker.
C12_StatisticsOverWholeStore ==
  Answered("get_anomaly_statistics") =>
    LET store == anomaly_explanations
        result == last.result
    IN  IF store = <<>>
        THEN DOMAIN result = {"error"}
        ELSE /\ "error" \notin DOMAIN result
             /\ result.total_videos = Len(store)
             /\ result.high_anomalies + result.medium_anomalies + result.low_anomalies
                  = result.total_videos
             /\ result.min_score <= result.median_score
             /\ result.median_score <= result.max_score
             /\ result.anomaly_rate =
                  [count |-> Cardinality({i \in 1..Len(store) : store[i].data.is_anomaly}),
                   of |-> result.total_videos]

\* statistics of a store that holds all three severities
C12_Witness ==
  /\ Answered("get_anomaly_statistics")
  /\ Len(anomaly_explanations) >= 3
  /\ last.result.high_anomalies >= 1
  /\ last.result.medium_anomalies >= 1
  /\ last.result.low_anomalies >= 1
  /\ last.result.anomaly_rate.count >= 1

\* C13: for aligned score vectors with entries in [0,1] and non-negative
\* weights summing to 1, every entry of the output of _combine_anomaly_scores
\* lies in [0,1], also when all combined scores are equal and when the batch
\* has one record.
C13_CombinedScoresInUnitRange ==
  Answered("_combine_anomaly_scores") =>
    /\ Len(last.result) = Len(last.args.scores)
    /\ \A i \in 1..Len(last.result) : last.result[i] >= 0 /\ last.result[i] <= FinalOne

\* two records with the same scores: the combiner does not normalise, and
\* returns the transformed sum, which is above 0
C13_Witness ==
  /\ Answered("_combine_anomaly_scores")
  /\ Len(last.result) = 2
  /\ last.result[1] = last.result[2]
  /\ last.result[1] > 0

\* the four score vectors a run in progress computed, by extractor
RunScores ==
  [embedding |-> run.scores.embedding_scores, text |-> run.scores.text_scores,
   metadata |-> run.scores.metadata_scores, statistical |-> run.scores.statistical_scores]

\* C14: on a valid batch of N records each of the four extractors returns
\* exactly N values, one per record, each in [0,1], also for records whose
\* text, categorical or numeric fields are missing.
C14_ExtractorsGiveUnitVectors ==
  (run # Idle /\ run.pc = "explain") =>
    \A name \in Extractors :
      /\ Len(RunScores[name]) = Len(Frames[run.frame].rows)
      /\ \A i \in 1..Len(RunScores[name]) :
           RunScores[name][i] >= 0 /\ RunScores[name][i] <= One

\* a run on a batch without numerical columns, and one on a batch with
\* missing cells, got their scores
C14_Witness ==
  /\ run # Idle /\ run.pc = "explain"
  /\ \/ \A k \in 1..Len(numerical_fields) :
          ~IsAvailable(Frames[run.frame], numerical_fields[k])
     \/ \E i \in 1..Len(Frames[run.frame].rows) :
          Frames[run.frame].rows[i]["main-event"] = NaN
  /\ \E i \in 1..Len(RunScores.text) : RunScores.text[i] > 0

\* C15: with non-negative weights, raising one component score of a record
\* while the other three stay fixed never lowers the record's combined score
\* before normalisation (weighted sum, then power 1.2).
C15_CombinedScoreMonotone ==
  Answered("_combine_anomaly_scores") =>
    \A i \in 1..Len(last.args.scores), name \in Extractors, higher \in 0..One :
      LET scores == last.args.scores[i]
          raised == [scores EXCEPT ![name] = higher]
          Combined(q) == CombinedScore(last.args.weights, q.embedding, q.text,
                                       q.metadata, q.statistical)
      IN  higher >= scores[name] => Combined(raised) >= Combined(scores)

\* a record whose combined score grows when one of its component scores does
C15_Witness ==
  /\ Answered("_combine_anomaly_scores")
  /\ \E i \in 1..Len(last.args.scores), name \in Extractors :
       LET scores == last.args.scores[i]
           raised == [scores EXCEPT ![name] = One]
           Combined(q) == CombinedScore(last.args.weights, q.embedding, q.text,
                                        q.metadata, q.statistical)
       IN  scores[name] < One /\ Combined(raised) > Combined(scores)

\* the detector as constructed with the present configuration: empty store,
\* not fitted
Unused == [Self EXCEPT !.anomaly_explanations = <<>>, !.fitted = FALSE]

\* the embeddings the last call of detect_anomalies was given
LastEmbeddings ==
  [rows |-> Len(LastBatch.rows), dim |-> last.dimension,
   decision |-> Take(DecisionValues, Len(LastBatch.rows))]

\* C16: the result of a completed run is the result the same batch and
\* configuration give on a detector that never ran or loaded: it does not
\* depend on the store or fitted flag an earlier run or load left, so two
\* runs in succession on an identical batch give an identical mapping.
C16_RunIndependentOfEarlierState ==
  (last.op = "detect_anomalies" /\ ~last.raised) =>
    anomaly_explanations =
      detect_anomalies(Unused, LastBatch, LastEmbeddings, last.fault)
        .self.anomaly_explanations

\* the run just completed repeated the run before it, on a non-empty store
C16_Witness ==
  /\ last.op = "detect_anomalies" /\ ~last.raised /\ last.repeat
  /\ Len(anomaly_explanations) >= 2

\* the place of a reason's signal category in the order embedding, text,
\* metadata, statistical
CategoryRank(reason) ==
  CASE reason.kind = "embedding" -> 1
    [] reason.kind \in {"keywords", "text"} -> 2
    [] reason.kind \in {"accident", "abrupt", "weather", "metadata"} -> 3
    [] reason.kind = "statistical" -> 4

\* C17: the reasons of an explanation come in the order embedding, text,
\* metadata, statistical: a reason of an earlier category never follows one
\* of a later category, and a record over all four thresholds has reasons of
\* all four categories.
C17_ReasonsInCategoryOrder ==
  Answered("_generate_anomaly_explanations") =>
    LET reasons == last.result.reasons IN
    /\ \A i \in 1..Len(reasons) : \A j \in 1..Len(reasons) :
         i < j => CategoryRank(reasons[i]) <= CategoryRank(reasons[j])
    /\ (/\ last.args.embedding > 3 /\ last.args.text > 3
        /\ last.args.metadata > 5 /\ last.args.statistical > 2) =>
         /\ CategoryRank(reasons[1]) = 1
         /\ CategoryRank(reasons[2]) = 2
         /\ CategoryRank(reasons[Len(reasons)]) = 4
         /\ \E i \in 3..(Len(reasons) - 1) : CategoryRank(reasons[i]) = 3

\* a record with reasons of all four categories, two of them of metadata
C17_Witness ==
  /\ Answered("_generate_anomaly_explanations")
  /\ {CategoryRank(last.result.reasons[i]) : i \in 1..Len(last.result.reasons)} = 1..4
  /\ Len(last.result.reasons) >= 5

\* C18: an explanation's derived fields agree with its own final_score and
\* reasons: severity is High iff final_score > 0.7, Medium iff
\* 0.4 < final_score <= 0.7, Low iff final_score <= 0.4; is_anomaly iff
\* final_score > 0.5; confidence is min(1, len(reasons)/3).
C18_DerivedFieldsConsistent ==
  Answered("_generate_anomaly_explanations") =>
    LET e == last.result IN
    /\ e.final_score = last.args.final
    /\ e.severity \in {"High", "Medium", "Low"}
    /\ e.severity = "High" <=> e.final_score > 7000
    /\ e.severity = "Medium" <=> (e.final_score > 4000 /\ e.final_score <= 7000)
    /\ e.severity = "Low" <=> e.final_score <= 4000
    /\ e.is_anomaly <=> e.final_score > 5000
    /\ e.confidence = Min(3, Len(e.reasons))

\* a final score of exactly 0.7 with fewer than three reasons
C18_Witness ==
  /\ Answered("_generate_anomaly_explanations")
  /\ last.result.final_score = 7000 /\ last.result.severity = "Medium"
  /\ last.result.is_anomaly /\ last.result.confidence = 2

\* whether a keyword of the configuration occurs in the lower-cased
\* interpretation or description of the row, for each pooled row
KeywordMatchOf ==
  [row \in PoolRows |->
     LET interpretation == lower(PyStr(RowGet(row, "interpretation", <<>>)))
         description == lower(PyStr(RowGet(row, "description-step-by-step", <<>>)))
     IN  \E k \in 1..Len(anomaly_keywords) :
           \/ Contains(interpretation, anomaly_keywords[k].chars)
           \/ Contains(description, anomaly_keywords[k].chars)]

\* the explanation stored for the row at index i of the last batch
StoredFor(i) == DictItem(anomaly_explanations, VideoId(LastBatch.rows[i], i - 1))

\* final_score 0, severity Low, no reasons, confidence 0
Unremarkable(explanation) ==
  /\ explanation.final_score = 0
  /\ explanation.severity = "Low"
  /\ explanation.reasons = <<>>
  /\ explanation.confidence = 0

\* the last call was a completed run on a batch of distinct identifiers
CompletedRun ==
  /\ last.op = "detect_anomalies" /\ ~last.raised
  /\ UniqueIds(LastBatch)

\* C19 as stated: a record without keyword match, without rare metadata
\* value, with all z-scores below 2 and embedding score 0 gets final_score 0,
\* severity Low, no reasons and confidence 0.
C19_Original ==
  CompletedRun =>
    \A i \in 1..Len(LastBatch.rows) :
      (/\ ~KeywordMatchOf[LastBatch.rows[i]]
       /\ RarityRowScore(LastBatch, LastBatch.rows[i]) = 0
       /\ StoredFor(i).component_scores.statistical = 0
       /\ StoredFor(i).component_scores.embedding = 0)
      => Unremarkable(StoredFor(i))

\* C19: a record whose embedding, text, metadata and statistical scores are
\* all 0 gets final_score 0, severity Low, no reasons and confidence 0.
C19_ZeroComponentsGiveZero ==
  CompletedRun =>
    \A i \in 1..Len(LastBatch.rows) :
      (\A name \in Extractors : StoredFor(i).component_scores[name] = 0)
      => Unremarkable(StoredFor(i))

\* a record with four zero components in a batch whose scores were
\* normalised: another record of the batch has the final score 1
C19_Witness ==
  /\ CompletedRun
  /\ \E i \in 1..Len(LastBatch.rows) :
       \A name \in Extractors : StoredFor(i).component_scores[name] = 0
  /\ \E i \in 1..Len(LastBatch.rows) : StoredFor(i).final_score = FinalOne

\* weights non-negative and contamination strictly between 0 and 1
ValidConfiguration ==
  /\ contamination > 0 /\ contamination < One
  /\ \A name \in Extractors : Weights(Self)[name] >= 0

\* C20: a detector with a negative weight or a contamination outside (0,1)
\* is rejected with an error: none of its runs completes, and it never
\* holds a store or becomes fitted.
C20_InvalidConfigurationRejected ==
  ~ValidConfiguration =>
    /\ Answered("detect_anomalies") => last.raised
    /\ anomaly_explanations = <<>> /\ ~fitted

\* the weighted, power-transformed score of record i of the last call of
\* _combine_anomaly_scores, before normalisation
LastCombined(i) ==
  CombinedScore(last.args.weights, last.args.scores[i].embedding, last.args.scores[i].text,
                last.args.scores[i].metadata, last.args.scores[i].statistical)

\* C21: when the combined scores of all records of a batch are identical,
\* a batch of one record included, the combiner returns all zeros whatever
\* the common value is.
C21_IdenticalScoresGiveZeros ==
  (/\ Answered("_combine_anomaly_scores")
   /\ \A i \in 1..Len(last.args.scores) : LastCombined(i) = LastCombined(1))
  => \A i \in 1..Len(last.result) : last.result[i] = 0

\* C22: the rarity bonus of a field is chosen by the rarest applicable
\* threshold only: 0.5 for a frequency below 1%, 0.3 for a frequency of at
\* least 1% and below 5%, nothing from 5% on.
C22_RarestThresholdOnly ==
  Answered("_detect_metadata_anomalies: rarity") =>
    last.result =
      IF 100 * last.args.count < last.args.total THEN 5
      ELSE IF 100 * last.args.count < 5 * last.args.total THEN 3
      ELSE 0

\* str() of a text cell of the last call of _detect_text_anomalies
LastText(field) ==
  PyStr(RowGet(TextRow(last.args.interpretation, last.args.description, last.args.columns),
               field, <<>>))

\* the sum of the weights of the keywords that occur in the lower-cased
\* interpretation or description, each counted once
KeywordSum ==
  SumSeq([k \in 1..Len(anomaly_keywords) |->
            IF \/ Contains(lower(LastText("interpretation")), anomaly_keywords[k].chars)
               \/ Contains(lower(LastText("description-step-by-step")), anomaly_keywords[k].chars)
            THEN anomaly_keywords[k].weight ELSE 0])

\* 0.3 once if a normal-indicator phrase occurs in the interpretation
NormalPenalty ==
  IF \E k \in 1..Len(normal_indicators) :
       Contains(lower(LastText("interpretation")), normal_indicators[k])
  THEN 3 ELSE 0

\* 0.2 for an interpretation shorter than 20 characters, 0.3 for one longer
\* than 200
LengthAdjustment ==
  IF Len(LastText("interpretation")) < 20 THEN 2
  ELSE IF Len(LastText("interpretation")) > 200 THEN 3
  ELSE 0

\* the text score with the given pattern bonus
ScoreWithBonus(pattern_bonus) ==
  Min(One, Max(0, KeywordSum + LengthAdjustment + pattern_bonus - NormalPenalty))

\* C23: the text extractor adds the pattern bonus 0.2 before clamping
\* whenever the interpretation holds two or more consecutive exclamation
\* marks or five or more consecutive uppercase letters, and none otherwise.
C23_PatternBonus ==
  Answered("_detect_text_anomalies") =>
    last.result =
      ScoreWithBonus(IF ReSearchPattern(LastText("interpretation")) THEN 2 ELSE 0)

\* str() of a field of the record of the last call of the loop body of
\* _generate_anomaly_explanations
LastField(field) == PyStr(RowGet(last.args.row, field, S_unknown))

\* a reason of the given kind is among the reasons of the last explanation
HasReason(kind) ==
  \E i \in 1..Len(last.result.reasons) : last.result.reasons[i].kind = kind

\* C24: for a record whose metadata score exceeds 0.3 there is one reason
\* for each event match: the accident reason if the event type contains
\* 'accident', the abrupt-behaviour reason if it contains 'abrupt', and both
\* if it contains both.
C24_ReasonForEachEventMatch ==
  (Answered("_generate_anomaly_explanations") /\ last.args.metadata > 3) =>
    /\ Contains(lower(LastField("main-event")), S_accident) => HasReason("accident")
    /\ Contains(lower(LastField("main-event")), S_abrupt) => HasReason("abrupt")

\* C25: for a record whose metadata score exceeds 0.3 the explanation has
\* an adverse-weather reason naming the weather exactly when the weather is
\* in the set that earns the metadata bonus: rain, snow, storm, fog.
C25_WeatherReasonMatchesBonus ==
  (Answered("_generate_anomaly_explanations") /\ last.args.metadata > 3) =>
    /\ HasReason("weather") <=>
         lower(LastField("weather-conditions")) \in {S_rain, S_snow, S_storm, S_fog}
    /\ \A i \in 1..Len(last.result.reasons) :
         last.result.reasons[i].kind = "weather" =>
           last.result.reasons[i].detail = LastField("weather-conditions")

\* C26: the text score is min(1, max(0, keyword_sum + length_adj +
\* pattern_bonus - normal_penalty)): the penalty is 0.3 once if a normal
\* phrase occurs in the interpretation, each keyword that occurs in the
\* interpretation or the description adds its weight once, the length
\* adjustment is 0.2 below 20 characters and 0.3 above 200; a record with
\* both text fields missing scores exactly 0.2.
C26_TextScoreFormula ==
  Answered("_detect_text_anomalies") =>
    /\ \E pattern_bonus \in {0, 2} : last.result = ScoreWithBonus(pattern_bonus)
    /\ (\A field \in {"interpretation", "description"} :
          \/ last.args[field] \in {NaN, <<>>}
          \/ (IF field = "interpretation" THEN field ELSE "description-step-by-step")
               \notin last.args.columns)
       => last.result = 2

\* two normal phrases in the interpretation and a keyword of weight 1.0 in
\* the description: 1.0 - 0.3
C26_Witness ==
  /\ Answered("_detect_text_anomalies")
  /\ last.args.interpretation = T_normal /\ last.args.description = T_crash
  /\ last.args.columns = {"interpretation", "description-step-by-step"}
  /\ last.result = 7

\* the weighted, power-transformed scores of the records of the last batch,
\* before normalisation
LastCombinedScores ==
  LET scores == ComputeScores(Self, LastBatch, LastEmbeddings, last.fault) IN
  [i \in 1..Len(LastBatch.rows) |->
     CombinedScore(Weights(Self), scores.embedding_scores[i], scores.text_scores[i],
                   scores.metadata_scores[i], scores.statistical_scores[i])]

\* some stored explanation has the final score 1.0, severity High and
\* is_anomaly true, and some has 0.0, Low and false
StoreSpansUnitRange ==
  /\ \E k \in 1..Len(anomaly_explanations) :
       LET e == anomaly_explanations[k].data IN
       e.final_score = FinalOne /\ e.severity = "High" /\ e.is_anomaly
  /\ \E k \in 1..Len(anomaly_explanations) :
       LET e == anomaly_explanations[k].data IN
       e.final_score = 0 /\ e.severity = "Low" /\ ~e.is_anomaly

\* C27 as stated: after any completed run whose combined scores are not all
\* equal, some stored explanation has final_score 1.0 and some has 0.0.
C27_Original ==
  (/\ Answered("detect_anomalies") /\ ~last.raised
   /\ \E i \in 1..Len(LastBatch.rows) : LastCombinedScores[i] # LastCombinedScores[1])
  => StoreSpansUnitRange

\* C27: after a completed run on a batch of distinct identifiers whose
\* combined scores are not all equal, some stored explanation has final_score
\* 1.0 (High, is_anomaly) and some has 0.0 (Low, not is_anomaly), however
\* small the component scores are.
C27_NormalisedStoreSpansUnitRange ==
  (/\ CompletedRun
   /\ \E i \in 1..Len(LastBatch.rows) : LastCombinedScores[i] # LastCombinedScores[1])
  => StoreSpansUnitRange

\* a record with no component score above 0.3 stored with final_score 1.0
C27_Witness ==
  /\ CompletedRun
  /\ \E k \in 1..Len(anomaly_explanations) :
       LET e == anomaly_explanations[k].data IN
       /\ e.final_score = FinalOne /\ e.severity = "High"
       /\ \A name \in Extractors : e.component_scores[name] <= 3

\* a first run is in progress: the detector was not fitted when it began
FirstRun == run # Idle /\ ~run.refit

\* C28 as stated: at every step of a first run at which the store holds
\* fewer than N entries, fitted is false.
C28_Original ==
  [][FirstRun => (Len(anomaly_explanations') < Len(Frames[run.frame].rows) => ~fitted')]_vars

\* C28: at every step of a first run fitted is false unless the
\* explanations of all N records have been stored, and with distinct
\* identifiers unless the store holds N entries: a reader that gates on
\* fitted never reads a partly filled store of a first run.
C28_FittedAfterAllStored ==
  [][FirstRun =>
       /\ fitted' => anomaly_explanations' =
                       ExplainFrom(<<>>, Frames[run.frame], run.scores, 0)
       /\ (UniqueIds(Frames[run.frame])
           /\ Len(anomaly_explanations') < Len(Frames[run.frame].rows)) => ~fitted']_vars

\* a query answered during a first run, from a store that holds some but
\* not all of the explanations, while fitted is false
C28_Witness ==
  /\ FirstRun /\ ~fitted
  /\ last.op \in Queries
  /\ Len(anomaly_explanations) > 0
  /\ Len(anomaly_explanations) < Len(Frames[run.frame].rows)

\* the last call of detect_anomalies raised in the text, metadata or
\* statistical extractor or in the combiner
RaisedAfterEmbedding ==
  /\ last.op = "detect_anomalies" /\ last.raised
  /\ last.called # <<>>
  /\ last.called[Len(last.called)] \in {"text", "metadata", "statistical", "combine"}

\* C29: when the text, metadata or statistical extractor or the combiner
\* raises during detect_anomalies, the exception reaches the caller and
\* anomaly_explanations and fitted keep their values from before the call.
C29_FailedRunKeepsResults ==
  [][RaisedAfterEmbedding' =>
       /\ anomaly_explanations' = anomaly_explanations
       /\ fitted' = fitted]_vars

\* a run that raised on a detector that holds the results of an earlier
\* run or load
C29_Witness ==
  /\ RaisedAfterEmbedding
  /\ fitted /\ Len(anomaly_explanations) >= 2

\* C30: get_anomaly_explanation, get_top_anomalies, get_anomaly_statistics
\* and save_anomaly_results leave the detector as it is, fitted or not:
\* anomaly_explanations with every stored field, fitted, contamination and
\* the four weights are unchanged by them, whatever their arguments.
C30_QueriesAndSaveReadOnly ==
  [][(last'.op \in Queries \cup {"save_anomaly_results"}) =>
       /\ anomaly_explanations' = anomaly_explanations
       /\ fitted' = fitted
       /\ contamination' = contamination
       /\ embedding_weight' = embedding_weight /\ text_weight' = text_weight
       /\ metadata_weight' = metadata_weight
       /\ statistical_weight' = statistical_weight]_vars

\* a save of a fitted detector that holds explanations went through, and
\* the detector still holds them
C30_Witness ==
  /\ last.op = "save_anomaly_results" /\ ~last.raised
  /\ files[last.path].kind = "pickle"
  /\ fitted /\ Len(anomaly_explanations) >= 2

====
